---- MODULE Spec2Model ----
(***************************************************************************)
(* A model of splitwise.py: the UserGroup ledger (expenses, balance sheet, *)
(* per-user balance maps), the three split strategies and the two          *)
(* settlement strategies.                                                  *)
(*                                                                         *)
(* Amounts are Python floats.  A float is modelled as a sign and a binary  *)
(* fixed-point magnitude  w + h/2^20 + m/2^40 + l/2^60  (three 20-bit      *)
(* fraction limbs), and every arithmetic result is rounded to 53           *)
(* significant bits, ties to even, as IEEE-754 double arithmetic does.     *)
(* Within the bounds of the model (magnitudes below 2^13; shares, entries  *)
(* and balances that are 0 or at least 2^-7, and sums and differences of   *)
(* such) every double that occurs is a multiple of 2^-60, so the           *)
(* representation is exact.                                                *)
(***************************************************************************)
EXTENDS Integers, Sequences, FiniteSets, TLC

\* ------------------------------------------------------------------------
\* float arithmetic
\* ------------------------------------------------------------------------

\* 2^20, the base of one fraction limb
Limb == 1048576

RECURSIVE Pow2(_)
Pow2(n) == IF n = 0 THEN 1 ELSE 2 * Pow2(n - 1)

\* number of bits of a natural number (0 for 0)
RECURSIVE BitLen(_)
BitLen(n) == IF n = 0 THEN 0 ELSE 1 + BitLen(n \div 2)

\* a magnitude: four limbs, most significant first
Mag(w, h, m, l) == [w |-> w, h |-> h, m |-> m, l |-> l]

MagZero == Mag(0, 0, 0, 0)

MagIsZero(a) == a.w = 0 /\ a.h = 0 /\ a.m = 0 /\ a.l = 0

MagLess(a, b) ==
    \/ a.w < b.w
    \/ a.w = b.w /\ a.h < b.h
    \/ a.w = b.w /\ a.h = b.h /\ a.m < b.m
    \/ a.w = b.w /\ a.h = b.h /\ a.m = b.m /\ a.l < b.l

\* carries of the limbs propagated upwards (limbs may exceed Limb on entry)
MagNorm(w, h, m, l) ==
    LET m1 == m + (l \div Limb)
        h1 == h + (m1 \div Limb)
    IN  Mag(w + (h1 \div Limb), h1 % Limb, m1 % Limb, l % Limb)

MagAdd(a, b) == MagNorm(a.w + b.w, a.h + b.h, a.m + b.m, a.l + b.l)

\* a - b for b <= a, borrowing downwards
MagSub(a, b) ==
    LET l0 == a.l - b.l
        bl == IF l0 < 0 THEN 1 ELSE 0
        m0 == a.m - b.m - bl
        bm == IF m0 < 0 THEN 1 ELSE 0
        h0 == a.h - b.h - bm
        bh == IF h0 < 0 THEN 1 ELSE 0
    IN  Mag(a.w - b.w - bh, h0 + bh * Limb, m0 + bm * Limb, l0 + bl * Limb)

\* a * n for a natural number n
MagMul(a, n) == MagNorm(a.w * n, a.h * n, a.m * n, a.l * n)

\* the number of low fraction bits that do not fit in 53 significant bits
DropBits(a) ==
    IF a.w > 0 THEN 7 + BitLen(a.w)
    ELSE IF a.h >= Pow2(13) THEN 7 - (20 - BitLen(a.h))
    ELSE 0

\* round a magnitude to 53 significant bits, ties to even; sticky tells that
\* the exact value lies strictly above the magnitude (a division remainder)
Round53(a, sticky) ==
    LET d    == DropBits(a)
        unit == Pow2(d)
        low  == a.l % unit
        half == unit \div 2
        kept == a.l - low
        odd  == IF d = 20 THEN a.m % 2 = 1 ELSE (a.l \div unit) % 2 = 1
        up   == \/ low > half
                \/ low = half /\ (sticky \/ odd)
    IN  IF d = 0 THEN a
        ELSE IF up THEN MagNorm(a.w, a.h, a.m, kept + unit)
        ELSE Mag(a.w, a.h, a.m, kept)

\* a float: sign (neg) and magnitude; zero is never negative
Float(neg, mag) == [neg |-> neg /\ ~MagIsZero(mag), mag |-> mag]

\* float(n) for an integer n
FromInt(n) == Float(n < 0, Mag(IF n < 0 THEN -n ELSE n, 0, 0, 0))

Zero == FromInt(0)

FNeg(x) == Float(~x.neg, x.mag)

\* x + y in exact arithmetic, not rounded
ExactAdd(x, y) ==
    IF x.neg = y.neg THEN Float(x.neg, MagAdd(x.mag, y.mag))
    ELSE IF MagLess(x.mag, y.mag) THEN Float(y.neg, MagSub(y.mag, x.mag))
    ELSE Float(x.neg, MagSub(x.mag, y.mag))

\* x + y
FAdd(x, y) ==
    LET e == ExactAdd(x, y) IN Float(e.neg, Round53(e.mag, FALSE))

\* x - y
FSub(x, y) == FAdd(x, FNeg(y))

\* x * n for a float x and an integer n
FMulInt(x, n) ==
    Float(x.neg # (n < 0), Round53(MagMul(x.mag, IF n < 0 THEN -n ELSE n), FALSE))

\* a / b for integers a and b, b > 0 (Python's true division)
FDivInt(a, b) ==
    LET n  == IF a < 0 THEN -a ELSE a
        r0 == n % b
        r1 == (r0 * Limb) % b
        r2 == (r1 * Limb) % b
        r3 == (r2 * Limb) % b
    IN  Float(a < 0,
              Round53(Mag(n \div b, (r0 * Limb) \div b, (r1 * Limb) \div b,
                          (r2 * Limb) \div b),
                      r3 # 0))

\* x < y, x <= y
FLess(x, y) ==
    IF x.neg # y.neg THEN x.neg
    ELSE IF x.neg THEN MagLess(y.mag, x.mag) ELSE MagLess(x.mag, y.mag)

\* FLeq with the comparison of line 119 made strict (> for >=)
FLeqStrict(x, y) == FLess(x, y)

FLeq(x, y) == x = y \/ FLess(x, y)

\* ------------------------------------------------------------------------
\* dictionaries
\* ------------------------------------------------------------------------

\* the group's users, in list order (the demo's alice, bob, charlie)
Users == <<"alice", "bob", "charlie">>

UserSet == {Users[i] : i \in 1..Len(Users)}

\* a dict: its keys in insertion order, which is the order Python iterates
\* them in, and the value at each key; the empty dict
EmptyDict == [keys |-> <<>>, at |-> <<>>]

\* the dict literal {keys[1]: f[keys[1]], keys[2]: f[keys[2]], ...}
Dict(keys, f) == [keys |-> keys, at |-> [k \in {keys[i] : i \in 1..Len(keys)} |-> f[k]]]

\* the set of keys of d; k in d; d[k] for a key that is there
Keys(d) == DOMAIN d.at
Has(d, k) == k \in DOMAIN d.at
At(d, k) == d.at[k]

\* d[k] of a defaultdict(float), read without inserting
Get(d, k) == IF Has(d, k) THEN At(d, k) ELSE Zero

\* d[k] = v: a new key goes to the end, an old key keeps its place
Put(d, k, v) ==
    [keys |-> IF Has(d, k) THEN d.keys ELSE Append(d.keys, k),
     at   |-> [x \in Keys(d) \cup {k} |-> IF x = k THEN v ELSE d.at[x]]]

\* the keys of d in iteration order
KeysOf(d) == d.keys

\* sum(values) as Python folds it: from 0, in the order of the keys
RECURSIVE FSumSeq(_, _)
FSumSeq(d, keys) ==
    IF keys = <<>> THEN Zero
    ELSE FAdd(FSumSeq(d, SubSeq(keys, 1, Len(keys) - 1)), At(d, keys[Len(keys)]))

\* sum(d.values()) for a dict of floats
FSum(d) == FSumSeq(d, KeysOf(d))

\* sum(d.values()) for a dict of integers
RECURSIVE IntSumSeq(_, _)
IntSumSeq(d, keys) ==
    IF keys = <<>> THEN 0 ELSE At(d, Head(keys)) + IntSumSeq(d, Tail(keys))

IntSum(d) == IntSumSeq(d, KeysOf(d))

\* ------------------------------------------------------------------------
\* split strategies
\* ------------------------------------------------------------------------

\* SplitStrategy._registry after the three register_strategy calls
SplitRegistry == {"EQUAL", "EXACT", "PERCENTAGE"}

\* the result of a split: an error kind ("" for none) and the splits dict
SplitOk(splits) == [err |-> "", splits |-> splits]
SplitErr(kind) == [err |-> kind, splits |-> EmptyDict]

\* custom_splits: None, or a dict of integers
NoCustom == [given |-> FALSE, shares |-> EmptyDict]
Custom(shares) == [given |-> TRUE, shares |-> shares]

\* Python's "not custom_splits": None or an empty dict
Falsy(custom_splits) == ~custom_splits.given \/ Keys(custom_splits.shares) = {}

\* EqualSplit dividing among the users other than the payer
EqualSplitAmongOthers(payer, amount, users, custom_splits) ==
    LET per_head == FDivInt(amount, Len(users) - 1)
    IN  SplitOk(Dict(users, [u \in {users[i] : i \in 1..Len(users)} |-> per_head]))

EqualSplit(payer, amount, users, custom_splits) ==
    LET per_head == FDivInt(amount, Len(users))
    IN  SplitOk(Dict(users, [u \in {users[i] : i \in 1..Len(users)} |-> per_head]))

ExactSplit(payer, amount, users, custom_splits) ==
    IF Falsy(custom_splits) THEN SplitErr("MissingCustomShares")
    ELSE IF IntSum(custom_splits.shares) # amount THEN SplitErr("SplitSumMismatch")
    ELSE SplitOk(Dict(KeysOf(custom_splits.shares),
                      [u \in Keys(custom_splits.shares) |->
                          FromInt(At(custom_splits.shares, u))]))

PercentageSplit(payer, amount, users, custom_splits) ==
    IF Falsy(custom_splits) THEN SplitErr("MissingCustomShares")
    ELSE IF IntSum(custom_splits.shares) # 100 THEN SplitErr("PercentageSumMismatch")
    ELSE SplitOk(Dict(KeysOf(custom_splits.shares),
                      [u \in Keys(custom_splits.shares) |->
                          FMulInt(FDivInt(At(custom_splits.shares, u), 100), amount)]))

\* SplitStrategy.get_strategy(split_type)().split(...)
Split(split_type, payer, amount, users, custom_splits) ==
    CASE split_type = "EQUAL" -> EqualSplit(payer, amount, users, custom_splits)
      [] split_type = "EXACT" -> ExactSplit(payer, amount, users, custom_splits)
      [] split_type = "PERCENTAGE" ->
             PercentageSplit(payer, amount, users, custom_splits)

\* ------------------------------------------------------------------------
\* bounds and inputs
\* ------------------------------------------------------------------------

\* at most this many expenses are recorded
MaxExpenses == 2

\* at most this many settlements succeed
MaxSettles == 2

\* the users that pay expenses
Payers == {"alice", "bob"}

\* the amounts of expenses
Amounts == {3}

\* the split types passed to add_expense; "OTHER" is not registered
SplitTypes == {"EQUAL", "EXACT", "PERCENTAGE", "OTHER"}

\* the custom_splits passed to add_expense: None, {}, {bob: 3},
\* {alice: -1, bob: 4, charlie: 0} (shares that sum to 3, one negative, one
\* zero) and the demo's percentages {alice: 40, bob: 40, charlie: 20}
CustomSplits ==
    { NoCustom,
      Custom(EmptyDict),
      Custom(Dict(<<"bob">>, [u \in {"bob"} |-> 3])),
      Custom(Dict(Users, [u \in UserSet |->
                 IF u = "alice" THEN -1 ELSE IF u = "bob" THEN 4 ELSE 0])),
      Custom(Dict(Users, [u \in UserSet |->
                 IF u = "alice" THEN 40 ELSE IF u = "bob" THEN 40 ELSE 20])) }

\* the amounts passed to settle_expense
SettleAmounts == {-1, 0, 1}

\* ------------------------------------------------------------------------
\* state
\* ------------------------------------------------------------------------

VARIABLES
    settlement_algo,  \* UserGroup.settlement_algo
    balance,          \* User.balance of every user: user -> dict
    balance_sheet,    \* UserGroup.balance_sheet, the outer dict: debtor -> inner dict object
    inner,            \* the inner dict objects of balance_sheet: object -> dict
    expenses,         \* UserGroup.expenses
    passbook,         \* the dict the last get_passbook() returned to the caller
    settles,          \* number of settlements that succeeded
    last              \* the last call: operation and result

vars == <<settlement_algo, balance, balance_sheet, inner, expenses,
          passbook, settles, last>>

\* the ledger: what add_expense and settle_expense work on
ledger == <<balance, balance_sheet, inner, expenses>>

\* a dict of inner dict objects with the objects' contents in their place
Deref(outer) == Dict(KeysOf(outer), [d \in Keys(outer) |-> inner[At(outer, d)]])

\* balance_sheet as the program reads it: debtor -> creditor -> amount
Sheet == Deref(balance_sheet)

\* balance_sheet[debtor][creditor], an absent entry counting as 0
Owed(debtor, creditor) ==
    IF Has(Sheet, debtor) THEN Get(At(Sheet, debtor), creditor) ELSE Zero

\* whether balance_sheet holds an entry for the pair
HasEntry(debtor, creditor) ==
    Has(Sheet, debtor) /\ Has(At(Sheet, debtor), creditor)

\* User.get_balance
get_balance(user) == FSum(balance[user])

Call(op, result) == [op |-> op, result |-> result]

Init ==
    /\ settlement_algo \in {"brute_force", "heap_based"}
    /\ balance = [u \in UserSet |-> EmptyDict]
    /\ balance_sheet = EmptyDict
    /\ inner = [d \in {} |-> EmptyDict]
    /\ expenses = <<>>
    /\ passbook = [has |-> FALSE, outer |-> EmptyDict]
    /\ settles = 0
    /\ last = Call("init", "ok")

\* a call that raises: nothing but the result the caller sees changes
Raise(op, kind) ==
    /\ last' = Call(op, kind)
    /\ UNCHANGED <<settlement_algo, balance, balance_sheet, inner, expenses,
                   passbook, settles>>

\* ------------------------------------------------------------------------
\* Expense and UserGroup.add_expense
\* ------------------------------------------------------------------------

\* Expense.__init__ (id and description left out)
Expense(payer, amount, splits) ==
    [payer |-> payer, amount |-> amount, splits |-> splits]

\* the loop of apply_split without the test of line 142, over the keys of
\* splits that are still to come: the payer's own share is subtracted from
\* the payer's balance entry for themselves
RECURSIVE apply_split_with_payer_loop(_, _, _, _)
apply_split_with_payer_loop(bal, payer, splits, keys) ==
    IF keys = <<>> THEN bal
    ELSE LET user  == Head(keys)
             share == At(splits, user)
             b1    == [bal EXCEPT ![user] =
                          Put(@, payer, FSub(Get(@, payer), share))]
             b2    == [b1 EXCEPT ![payer] =
                          Put(@, user, FAdd(Get(@, user), share))]
         IN  apply_split_with_payer_loop(IF user = payer THEN b1 ELSE b2,
                                         payer, splits, Tail(keys))

apply_split_with_payer(bal, payer, splits) ==
    apply_split_with_payer_loop(bal, payer, splits, KeysOf(splits))

\* the loop of apply_split over the keys of splits that are still to come
RECURSIVE apply_split_loop(_, _, _, _)
apply_split_loop(bal, payer, splits, keys) ==
    IF keys = <<>> THEN bal
    ELSE LET user  == Head(keys)
             share == At(splits, user)
             b1    == [bal EXCEPT ![user] =
                          Put(@, payer, FSub(Get(@, payer), share))]
             b2    == [b1 EXCEPT ![payer] =
                          Put(@, user, FAdd(Get(@, user), share))]
         IN  IF user = payer
             THEN apply_split_loop(bal, payer, splits, Tail(keys))
             ELSE apply_split_loop(b2, payer, splits, Tail(keys))

\* Expense.apply_split: the users' balance maps after it
apply_split(bal, payer, splits) ==
    apply_split_loop(bal, payer, splits, KeysOf(splits))

\* the loop of add_expense over expense.splits: balance_sheet and its inner
\* dicts after it; a debtor without an inner dict gets a new one, named
\* after the debtor
RECURSIVE RecordDebtsLoop(_, _, _, _, _)
RecordDebtsLoop(sheet, in, payer, splits, keys) ==
    IF keys = <<>> THEN [balance_sheet |-> sheet, inner |-> in]
    ELSE LET user  == Head(keys)
             share == At(splits, user)
             old   == IF Has(sheet, user) THEN in[At(sheet, user)] ELSE EmptyDict
             obj   == IF Has(sheet, user) THEN At(sheet, user) ELSE user
             new   == Put(old, payer, FAdd(Get(old, payer), share))
         IN  IF user = payer
             THEN RecordDebtsLoop(sheet, in, payer, splits, Tail(keys))
             ELSE RecordDebtsLoop(
                      Put(sheet, user, obj),
                      [o \in (DOMAIN in) \cup {obj} |-> IF o = obj THEN new ELSE in[o]],
                      payer, splits, Tail(keys))

RecordDebts(sheet, in, payer, splits) ==
    RecordDebtsLoop(sheet, in, payer, splits, KeysOf(splits))

\* the result of add_expense's strategy lookup and Expense.__init__
AddResult(payer, amount, split_type, custom_splits) ==
    IF split_type \notin SplitRegistry THEN SplitErr("InvalidSplitType")
    ELSE Split(split_type, payer, amount, Users, custom_splits)

\* add_expense recording the expense before the split is validated
add_expense_append_first(payer, amount, split_type, custom_splits) ==
    LET r == AddResult(payer, amount, split_type, custom_splits)
        debts == RecordDebts(balance_sheet, inner, payer, r.splits)
    IN  /\ Len(expenses) < MaxExpenses
        /\ expenses' = Append(expenses, Expense(payer, amount, r.splits))
        /\ IF r.err # ""
           THEN /\ last' = Call("add_expense", r.err)
                /\ UNCHANGED <<settlement_algo, balance, balance_sheet, inner,
                               passbook, settles>>
           ELSE /\ balance' = apply_split(balance, payer, r.splits)
                /\ inner' = debts.inner
                /\ balance_sheet' = debts.balance_sheet
                /\ last' = Call("add_expense", "ok")
                /\ UNCHANGED <<settlement_algo, passbook, settles>>

\* add_expense inserting the expense at the front of the list
add_expense_prepend(payer, amount, split_type, custom_splits) ==
    LET r == AddResult(payer, amount, split_type, custom_splits)
        debts == RecordDebts(balance_sheet, inner, payer, r.splits)
    IN  IF r.err # ""
        THEN Raise("add_expense", r.err)
        ELSE /\ Len(expenses) < MaxExpenses
             /\ balance' = apply_split(balance, payer, r.splits)
             /\ expenses' = <<Expense(payer, amount, r.splits)>> \o expenses
             /\ inner' = debts.inner
             /\ balance_sheet' = debts.balance_sheet
             /\ last' = Call("add_expense", "ok")
             /\ UNCHANGED <<settlement_algo, passbook, settles>>

add_expense(payer, amount, split_type, custom_splits) ==
    LET r == AddResult(payer, amount, split_type, custom_splits)
        debts == RecordDebts(balance_sheet, inner, payer, r.splits)
    IN  IF r.err # ""
        THEN Raise("add_expense", r.err)
        ELSE /\ Len(expenses) < MaxExpenses
             /\ balance' = apply_split(balance, payer, r.splits)
             /\ expenses' = Append(expenses, Expense(payer, amount, r.splits))
             /\ inner' = debts.inner
             /\ balance_sheet' = debts.balance_sheet
             /\ last' = Call("add_expense", "ok")
             /\ UNCHANGED <<settlement_algo, passbook, settles>>

\* ------------------------------------------------------------------------
\* settlement strategies and UserGroup.settle_expense
\* ------------------------------------------------------------------------

\* SettlementStrategy._registry after the two register calls
SettlementRegistry == {"heap_based", "brute_force"}

\* the result of a settle: an error kind ("" for none), the inner dicts and
\* the users' balance maps after it
SettleOk(in, bal) == [err |-> "", inner |-> in, balance |-> bal]
SettleErr(kind) == [err |-> kind, inner |-> inner, balance |-> balance]

\* HeapSettlement.settle given the body of the direct pairwise reducer
HeapSettlementPairwise(payer, payee, amount) ==
    IF HasEntry(payer, payee) /\ FLeq(FromInt(amount), Owed(payer, payee))
    THEN SettleOk(
             [inner EXCEPT ![At(balance_sheet, payer)] =
                 Put(@, payee, FSub(At(@, payee), FromInt(amount)))],
             [balance EXCEPT
                 ![payee] = Put(@, payer, FSub(Get(@, payer), FromInt(amount))),
                 ![payer] = Put(@, payee, FSub(Get(@, payee), FromInt(amount)))])
    ELSE SettleErr("NoOutstandingBalance")

\* HeapSettlement.settle is declared without self: the call of
\* settle_expense, which passes payer by keyword, raises TypeError
HeapSettlement(payer, payee, amount) == SettleErr("TypeError")

\* BruteForceSettlement netting the pair: the opposite-direction entry
\* balance_sheet[payee][payer], when there is one, is reduced as well
BruteForceSettlementBothWays(payer, payee, amount) ==
    IF Has(balance_sheet, payer) /\ Has(inner[At(balance_sheet, payer)], payee)
    THEN LET sheet == inner[At(balance_sheet, payer)]
             amt   == FromInt(amount)
             in1   == [inner EXCEPT ![At(balance_sheet, payer)] =
                          Put(sheet, payee, FSub(At(sheet, payee), amt))]
             in2   == IF /\ Has(balance_sheet, payee)
                         /\ Has(in1[At(balance_sheet, payee)], payer)
                      THEN [in1 EXCEPT ![At(balance_sheet, payee)] =
                               Put(@, payer, FSub(At(@, payer), amt))]
                      ELSE in1
         IN  IF FLeq(amt, At(sheet, payee))
             THEN SettleOk(in2,
                      [balance EXCEPT
                          ![payee] = Put(@, payer, FSub(Get(@, payer), amt)),
                          ![payer] = Put(@, payee, FSub(Get(@, payee), amt))])
             ELSE SettleErr("SettlementExceedsBalance")
    ELSE SettleErr("NoOutstandingBalance")

BruteForceSettlement(payer, payee, amount) ==
    IF Has(balance_sheet, payer) /\ Has(inner[At(balance_sheet, payer)], payee)
    THEN LET sheet == inner[At(balance_sheet, payer)]
             amt   == FromInt(amount)
         IN  IF FLeq(amt, At(sheet, payee))
             THEN LET b1 == [balance EXCEPT ![payee] =
                                Put(@, payer, FSub(Get(@, payer), amt))]
                  IN  SettleOk(
                          [inner EXCEPT ![At(balance_sheet, payer)] =
                              Put(sheet, payee, FSub(At(sheet, payee), amt))],
                          [b1 EXCEPT ![payer] =
                              Put(@, payee, FSub(Get(@, payee), amt))])
             ELSE SettleErr("SettlementExceedsBalance")
    ELSE SettleErr("NoOutstandingBalance")

\* SettlementStrategy.get_settlement_algo(...)().settle(...)
SettleResult(payer, payee, amount) ==
    IF settlement_algo \notin SettlementRegistry
    THEN SettleErr("UnknownSettlementAlgo")
    ELSE IF settlement_algo = "heap_based"
    THEN HeapSettlement(payer, payee, amount)
    ELSE BruteForceSettlement(payer, payee, amount)

\* settle_expense reading balance_sheet[payer.id][payee.id] before the
\* membership tests: the defaultdicts insert the entry that was looked up
settle_expense_vivify(payer, payee, amount) ==
    LET r == SettleResult(payer, payee, amount)
        obj == IF Has(balance_sheet, payer) THEN At(balance_sheet, payer) ELSE payer
        old == IF Has(balance_sheet, payer) THEN inner[obj] ELSE EmptyDict
    IN  IF r.err # ""
        THEN /\ last' = Call("settle_expense", r.err)
             /\ balance_sheet' = Put(balance_sheet, payer, obj)
             /\ inner' = [o \in (DOMAIN inner) \cup {obj} |->
                             IF o = obj THEN Put(old, payee, Get(old, payee))
                             ELSE inner[o]]
             /\ UNCHANGED <<settlement_algo, balance, expenses, passbook, settles>>
        ELSE /\ settles < MaxSettles
             /\ inner' = r.inner
             /\ balance' = r.balance
             /\ settles' = settles + 1
             /\ last' = Call("settle_expense", "ok")
             /\ UNCHANGED <<settlement_algo, balance_sheet, expenses, passbook>>

settle_expense(payer, payee, amount) ==
    LET r == SettleResult(payer, payee, amount)
    IN  IF r.err # ""
        THEN Raise("settle_expense", r.err)
        ELSE /\ settles < MaxSettles
             /\ inner' = r.inner
             /\ balance' = r.balance
             /\ settles' = settles + 1
             /\ last' = Call("settle_expense", "ok")
             /\ UNCHANGED <<settlement_algo, balance_sheet, expenses, passbook>>

\* ------------------------------------------------------------------------
\* UserGroup.get_passbook
\* ------------------------------------------------------------------------

\* balance_sheet after balance_sheet[user.id] was read for the users of keys
RECURSIVE VivifySheet(_, _)
VivifySheet(sheet, keys) ==
    IF keys = <<>> THEN sheet
    ELSE VivifySheet(IF Has(sheet, Head(keys)) THEN sheet
                     ELSE Put(sheet, Head(keys), Head(keys)),
                     Tail(keys))

\* get_passbook reading balance_sheet[user.id] for every user: the
\* defaultdict inserts an inner dict for each user that had none
get_passbook_vivify ==
    /\ balance_sheet' = VivifySheet(balance_sheet, Users)
    /\ inner' = [o \in (DOMAIN inner) \cup UserSet |->
                    IF o \in DOMAIN inner THEN inner[o] ELSE EmptyDict]
    /\ passbook' = [has |-> TRUE, outer |-> balance_sheet']
    /\ last' = Call("get_passbook", "ok")
    /\ UNCHANGED <<settlement_algo, balance, expenses, settles>>

\* dict(self.balance_sheet): a new outer dict holding the same inner dict objects
get_passbook ==
    /\ passbook' = [has |-> TRUE, outer |-> balance_sheet]
    /\ last' = Call("get_passbook", "ok")
    /\ UNCHANGED <<settlement_algo, balance, balance_sheet, inner, expenses, settles>>

\* what the dict returned to the caller shows now
PassbookView == Deref(passbook.outer)

\* ------------------------------------------------------------------------
\* specification
\* ------------------------------------------------------------------------

AddExpense ==
    \E payer \in Payers, amount \in Amounts, split_type \in SplitTypes,
       custom_splits \in CustomSplits :
        add_expense(payer, amount, split_type, custom_splits)

SettleExpense ==
    \E payer \in UserSet, payee \in UserSet, amount \in SettleAmounts :
        settle_expense(payer, payee, amount)

GetPassbook == get_passbook

Next == AddExpense \/ SettleExpense \/ GetPassbook

Spec == Init /\ [][Next]_vars

\* ------------------------------------------------------------------------
\* claims
\* ------------------------------------------------------------------------

\* sum(u.get_balance() for u in users)
TotalBalance == FSumSeq(Dict(Users, [u \in UserSet |-> get_balance(u)]), Users)

\* C1 (conservation): in every reachable state the values of all users'
\* balance maps, summed per user by get_balance and then over the users, add
\* up to 0.
C1_Conservation == TotalBalance = Zero

\* the entry balance_sheet[payer][payee] that a settle result leaves
OwedIn(r, payer, payee) ==
    IF Has(balance_sheet, payer)
    THEN Get(r.inner[At(balance_sheet, payer)], payee)
    ELSE Zero

\* C2 as stated (settlement bound): under brute_force, settle(payer, payee,
\* amount) fails with SettlementExceedsBalance whenever amount >
\* balance_sheet[payer][payee] (absent counting as 0), and otherwise succeeds
\* and leaves the entry at its old value minus amount.
C2_SettlementBoundAsStated ==
    /\ [](settlement_algo = "brute_force" =>
            \A payer \in UserSet, payee \in UserSet, amount \in SettleAmounts :
                LET r == SettleResult(payer, payee, amount)
                IN  IF FLess(Owed(payer, payee), FromInt(amount))
                    THEN r.err = "SettlementExceedsBalance"
                    ELSE /\ r.err = ""
                         /\ OwedIn(r, payer, payee) =
                                FSub(Owed(payer, payee), FromInt(amount)))
    /\ [][(last'.op = "settle_expense" /\ last'.result = "ok") =>
            \E payer \in UserSet, payee \in UserSet, amount \in SettleAmounts :
                /\ SettleResult(payer, payee, amount).err = ""
                /\ inner' = SettleResult(payer, payee, amount).inner
         ]_vars

\* C2 as amended: under brute_force, when balance_sheet holds an entry for
\* (payer, payee), settle fails with SettlementExceedsBalance if amount exceeds
\* it and otherwise succeeds and leaves the entry at its old value minus
\* amount; when it holds no entry, settle fails with NoOutstandingBalance.
C2_SettlementBound ==
    /\ [](settlement_algo = "brute_force" =>
            \A payer \in UserSet, payee \in UserSet, amount \in SettleAmounts :
                LET r == SettleResult(payer, payee, amount)
                IN  IF ~HasEntry(payer, payee)
                    THEN r.err = "NoOutstandingBalance"
                    ELSE IF FLess(Owed(payer, payee), FromInt(amount))
                    THEN r.err = "SettlementExceedsBalance"
                    ELSE /\ r.err = ""
                         /\ OwedIn(r, payer, payee) =
                                FSub(Owed(payer, payee), FromInt(amount)))
    /\ [][(last'.op = "settle_expense" /\ last'.result = "ok") =>
            \E payer \in UserSet, payee \in UserSet, amount \in SettleAmounts :
                /\ SettleResult(payer, payee, amount).err = ""
                /\ inner' = SettleResult(payer, payee, amount).inner
         ]_vars

\* a settle was refused as exceeding the balance, after another succeeded
C2_Witness ==
    /\ settlement_algo = "brute_force"
    /\ last = Call("settle_expense", "SettlementExceedsBalance")
    /\ settles > 0

\* C3 (non-negative debts): in every reachable state every balance_sheet
\* entry is >= 0.
C3_NonNegativeDebts ==
    \A debtor \in UserSet, creditor \in UserSet : ~Owed(debtor, creditor).neg

\* the calls of add_expense that C4 lists as failing
FailingAdd(amount, split_type, custom_splits) ==
    \/ split_type \notin {"EQUAL", "EXACT", "PERCENTAGE"}
    \/ /\ split_type \in {"EXACT", "PERCENTAGE"}
       /\ ~custom_splits.given
    \/ /\ split_type = "EXACT"
       /\ custom_splits.given
       /\ IntSum(custom_splits.shares) # amount
    \/ /\ split_type = "PERCENTAGE"
       /\ custom_splits.given
       /\ IntSum(custom_splits.shares) # 100

\* C4 (failed add_expense is a no-op): a call with an unregistered split
\* type, an Exact or Percentage split without custom shares, Exact shares not
\* summing to the amount or percentages not summing to 100 fails, and every
\* failing add_expense leaves expenses, balance_sheet and the balance maps as
\* they were.
C4_FailedAddNoOp ==
    /\ [](\A payer \in Payers, amount \in Amounts, split_type \in SplitTypes,
            custom_splits \in CustomSplits :
              FailingAdd(amount, split_type, custom_splits)
              => AddResult(payer, amount, split_type, custom_splits).err # "")
    /\ [][(last'.op = "add_expense" /\ last'.result # "ok") => ledger' = ledger
         ]_vars

\* an add_expense failed on a ledger that holds an expense
C4_Witness ==
    /\ last = Call("add_expense", "SplitSumMismatch")
    /\ Len(expenses) > 0

\* C5 (failed settle is a no-op): under brute_force, settle fails with
\* NoOutstandingBalance when balance_sheet has no entry for the pair and with
\* SettlementExceedsBalance when the amount exceeds the entry, and a failing
\* settle leaves balance_sheet (entries included), the balance maps and
\* expenses as they were.
C5_FailedSettleNoOp ==
    /\ [](settlement_algo = "brute_force" =>
            \A payer \in UserSet, payee \in UserSet, amount \in SettleAmounts :
                LET err == SettleResult(payer, payee, amount).err
                IN  /\ ~HasEntry(payer, payee) => err = "NoOutstandingBalance"
                    /\ (HasEntry(payer, payee)
                          /\ FLess(Owed(payer, payee), FromInt(amount)))
                       => err = "SettlementExceedsBalance")
    /\ [][(last'.op = "settle_expense" /\ last'.result # "ok") => ledger' = ledger
         ]_vars

\* a settle between a pair without an entry failed on a ledger with debts
C5_Witness ==
    /\ settlement_algo = "brute_force"
    /\ last = Call("settle_expense", "NoOutstandingBalance")
    /\ Keys(balance_sheet) # {}

\* C6 (repeat after full repayment): under brute_force, when
\* balance_sheet[payer][payee] = d > 0, settle(payer, payee, d) succeeds and
\* leaves the entry 0, and the same call repeated at once fails with
\* NoOutstandingBalance.
C6_RepeatAfterFullRepayment ==
    [][\A payer \in UserSet, payee \in UserSet, amount \in SettleAmounts :
          (/\ settlement_algo = "brute_force"
           /\ amount > 0
           /\ HasEntry(payer, payee)
           /\ Owed(payer, payee) = FromInt(amount)
           /\ settle_expense(payer, payee, amount))
          => /\ last'.result = "ok"
             /\ Owed(payer, payee)' = Zero
             /\ SettleResult(payer, payee, amount)'.err = "NoOutstandingBalance"
      ]_vars

\* C7 as stated (split-sum law): the values of every recorded expense's
\* splits sum to its amount.
C7_SplitSumAsStated ==
    \A i \in 1..Len(expenses) :
        FSum(expenses[i].splits) = FromInt(expenses[i].amount)

\* |x - y| <= n * 2^-40
WithinRounding(x, y, n) == ~MagLess(Mag(0, 0, n, 0), ExactAdd(x, FNeg(y)).mag)

\* C7 as amended: the values of every recorded expense's splits sum to its
\* amount up to floating-point rounding, within amount * 2^-40.
C7_SplitSumWithinRounding ==
    \A i \in 1..Len(expenses) :
        WithinRounding(FSum(expenses[i].splits), FromInt(expenses[i].amount),
                       expenses[i].amount)

\* a recorded expense whose splits do not sum to its amount exactly
C7_Witness ==
    \E i \in 1..Len(expenses) :
        FSum(expenses[i].splits) # FromInt(expenses[i].amount)

\* a share is positive: x > 0
Positive(x) == ~x.neg /\ ~MagIsZero(x.mag)

\* C8 (cumulative debt recording): a successful add_expense with payer P adds
\* Q's share to balance_sheet[Q][P] for every other participant Q with a
\* positive share and changes no other entry; an Equal split of A among the n
\* users of a fresh ledger yields exactly the entries balance_sheet[Q][P] = A/n.
C8_CumulativeDebts ==
    [][\A payer \in Payers, amount \in Amounts, split_type \in SplitTypes,
         custom_splits \in CustomSplits :
          LET r == AddResult(payer, amount, split_type, custom_splits)
          IN  (r.err = "" /\ add_expense(payer, amount, split_type, custom_splits))
              => /\ \A debtor \in UserSet, creditor \in UserSet :
                       Owed(debtor, creditor)' =
                           IF /\ creditor = payer
                              /\ debtor # payer
                              /\ Has(r.splits, debtor)
                              /\ Positive(At(r.splits, debtor))
                           THEN FAdd(Owed(debtor, creditor), At(r.splits, debtor))
                           ELSE Owed(debtor, creditor)
                 /\ (split_type = "EQUAL" /\ expenses = <<>> /\ Keys(balance_sheet) = {})
                    => /\ Keys(Sheet') = UserSet \ {payer}
                       /\ \A debtor \in UserSet \ {payer} :
                             /\ Keys(At(Sheet', debtor)) = {payer}
                             /\ At(At(Sheet', debtor), payer) =
                                    FDivInt(amount, Len(Users))
      ]_vars

\* C9 (passbook is a snapshot): the structure a get_passbook() returned keeps
\* the amounts it had, whatever add_expense or settle calls follow.
C9_PassbookSnapshot ==
    [][(passbook.has /\ passbook' = passbook) => PassbookView' = PassbookView]_vars

\* C10 (idempotent read): get_passbook() changes nothing in the ledger, and a
\* call that follows another directly returns an equal structure.
C10_IdempotentRead ==
    [][get_passbook
          => /\ ledger' = ledger
             /\ last.op = "get_passbook"
                => passbook' = passbook /\ PassbookView' = PassbookView
      ]_vars

\* a passbook with entries was returned
C10_Witness ==
    /\ last.op = "get_passbook"
    /\ passbook.has
    /\ \E debtor \in Keys(PassbookView) : Keys(At(PassbookView, debtor)) # {}

\* C11 (settle frame): a successful settle(payer, payee, amount) changes only
\* balance_sheet[payer][payee], payee.balance[payer] and payer.balance[payee];
\* the opposite-direction entry, every other balance_sheet entry, every other
\* balance map entry, the keys of all these dicts and the expense list stay
\* as they were.
C11_SettleFrame ==
    [][(last'.op = "settle_expense" /\ last'.result = "ok") =>
          /\ expenses' = expenses
          /\ balance_sheet' = balance_sheet
          /\ DOMAIN inner' = DOMAIN inner
          /\ \E payer \in UserSet, payee \in UserSet :
                /\ payer # payee
                /\ \A d \in Keys(Sheet) :
                      /\ KeysOf(At(Sheet', d)) = KeysOf(At(Sheet, d))
                      /\ \A c \in Keys(At(Sheet, d)) :
                            (d # payer \/ c # payee)
                            => At(At(Sheet', d), c) = At(At(Sheet, d), c)
                /\ \A u \in UserSet :
                      /\ KeysOf(balance'[u]) = KeysOf(balance[u])
                      /\ \A x \in Keys(balance[u]) :
                            (<<u, x>> \notin {<<payee, payer>>, <<payer, payee>>})
                            => At(balance'[u], x) = At(balance[u], x)
      ]_vars

\* a settle succeeded on a ledger where two users owe each other
C11_Witness ==
    /\ last = Call("settle_expense", "ok")
    /\ \E p \in UserSet, q \in UserSet :
          /\ p # q
          /\ HasEntry(p, q) /\ Positive(Owed(p, q))
          /\ HasEntry(q, p) /\ Positive(Owed(q, p))

\* the expense a successful add_expense has just recorded
Recorded == expenses[Len(expenses)]

\* C12 (payer's own share is computed but never applied): an Equal split
\* holds the payer with share amount/n; a successful add_expense leaves the
\* payer's balance entry for themselves and balance_sheet[payer][payer] as
\* they were (absent stays absent), whether the payer is among the shares or
\* not, and for every other user Q of the splits Q.balance[payer] is
\* decreased by and payer.balance[Q] increased by Q's share.
C12_PayerShareNotApplied ==
    /\ [](\A payer \in Payers, amount \in Amounts :
            LET r == EqualSplit(payer, amount, Users, NoCustom)
            IN  /\ Has(r.splits, payer)
                /\ At(r.splits, payer) = FDivInt(amount, Len(Users)))
    /\ [][(last'.op = "add_expense" /\ last'.result = "ok") =>
            \E payer \in UserSet :
                LET splits == Recorded'.splits
                IN  /\ payer = Recorded'.payer
                    /\ Has(balance'[payer], payer) = Has(balance[payer], payer)
                    /\ Get(balance'[payer], payer) = Get(balance[payer], payer)
                    /\ HasEntry(payer, payer)' = HasEntry(payer, payer)
                    /\ Owed(payer, payer)' = Owed(payer, payer)
                    /\ \A Q \in Keys(splits) \ {payer} :
                          /\ Get(balance'[Q], payer) =
                                 FSub(Get(balance[Q], payer), At(splits, Q))
                          /\ Get(balance'[payer], Q) =
                                 FAdd(Get(balance[payer], Q), At(splits, Q))
         ]_vars

\* two expenses were added, the last with a payer who has a share of their
\* own, the first with a payer who has none
C12_Witness ==
    /\ last = Call("add_expense", "ok")
    /\ Len(expenses) = 2
    /\ Has(expenses[2].splits, expenses[2].payer)
    /\ Positive(At(expenses[2].splits, expenses[2].payer))
    /\ ~Has(expenses[1].splits, expenses[1].payer)

\* C13 (append-only expense history): a successful add_expense appends exactly
\* one Expense at the end of expenses, in the step that applies its shares to
\* the balance maps and the balance sheet; every other step (a failing
\* add_expense, any settle, get_passbook) leaves expenses as it was.
C13_AppendOnly ==
    [][/\ (last'.op = "add_expense" /\ last'.result = "ok") =>
             /\ Len(expenses') = Len(expenses) + 1
             /\ SubSeq(expenses', 1, Len(expenses)) = expenses
             /\ balance' = apply_split(balance, Recorded'.payer, Recorded'.splits)
             /\ inner' = RecordDebts(balance_sheet, inner, Recorded'.payer,
                                     Recorded'.splits).inner
             /\ balance_sheet' = RecordDebts(balance_sheet, inner, Recorded'.payer,
                                             Recorded'.splits).balance_sheet
       /\ ~(last'.op = "add_expense" /\ last'.result = "ok") => expenses' = expenses
      ]_vars

\* a second, different expense was appended
C13_Witness ==
    /\ last = Call("add_expense", "ok")
    /\ Len(expenses) = 2
    /\ expenses[1] # expenses[2]

\* some balance_sheet entry is positive
OutstandingDebt ==
    \E debtor \in UserSet, creditor \in UserSet : Positive(Owed(debtor, creditor))

\* C14 (unimplemented settlement variant): under heap_based every settle call
\* fails or does nothing and never changes the balance sheet, a balance map or
\* expenses; in every state with an outstanding debt there is a call on which
\* the direct pairwise reducer succeeds and changes the balance sheet, so the
\* two are not equivalent there.
C14_HeapSettleInert ==
    /\ [](settlement_algo = "heap_based" =>
            /\ \A payer \in UserSet, payee \in UserSet, amount \in SettleAmounts :
                  LET r == SettleResult(payer, payee, amount)
                  IN  r.err # "" \/ (r.inner = inner /\ r.balance = balance)
            /\ OutstandingDebt =>
                  \E payer \in UserSet, payee \in UserSet, amount \in SettleAmounts :
                      LET h == HeapSettlement(payer, payee, amount)
                          b == BruteForceSettlement(payer, payee, amount)
                      IN  /\ b.err = ""
                          /\ b.inner # inner
                          /\ h.err # "" \/ h.inner = inner)
    /\ [][(settlement_algo = "heap_based" /\ last'.op = "settle_expense")
             => ledger' = ledger
         ]_vars

\* under heap_based a settle was called on a ledger with an outstanding debt
C14_Witness ==
    /\ settlement_algo = "heap_based"
    /\ last.op = "settle_expense"
    /\ OutstandingDebt

\* C15 (ledger/balance consistency): in every reachable state, for every
\* ordered pair of distinct users P and C,
\* P.balance[C] = balance_sheet[C][P] - balance_sheet[P][C] (absent entries
\* counting as 0), and hence P.balance[C] = -C.balance[P].
C15_LedgerBalanceConsistency ==
    \A P \in UserSet, C \in UserSet :
        P # C =>
            /\ Get(balance[P], C) = FSub(Owed(C, P), Owed(P, C))
            /\ Get(balance[P], C) = FNeg(Get(balance[C], P))

\* no recorded expense has a negative share
NoNegativeShare ==
    \A i \in 1..Len(expenses) :
        \A u \in Keys(expenses[i].splits) : ~At(expenses[i].splits, u).neg

\* C16 (full-repayment round trip): once expenses (with no negative share)
\* have been added and settles have repaid every balance_sheet entry in
\* full, every balance_sheet entry is 0 and every value of every balance map
\* is 0.
C16_FullRepaymentRoundTrip ==
    (/\ last = Call("settle_expense", "ok")
     /\ NoNegativeShare
     /\ \A debtor \in UserSet, creditor \in UserSet : Owed(debtor, creditor) = Zero)
    => \A u \in UserSet : \A x \in Keys(balance[u]) : At(balance[u], x) = Zero

\* C17 (settlement only reduces debt): no settle call, whatever the amount
\* (zero and negative included), increases a balance_sheet entry.
C17_SettleOnlyReduces ==
    [][last'.op = "settle_expense" =>
          \A debtor \in UserSet, creditor \in UserSet :
              FLeq(Owed(debtor, creditor)', Owed(debtor, creditor))
      ]_vars

====
